---------------------------- MODULE Spec2Model ----------------------------
(***************************************************************************)
(* compare_ffs.py (benchmarkff, 03_analysis): the comparison driver        *)
(* compare_ffs and the TFD helper calc_tfd, as a state machine.            *)
(*                                                                         *)
(* One run of compare_ffs(in_dict, conf_id_tag, outprefix) is one          *)
(* behaviour.  The input (in_dict and the contents of the SD files it      *)
(* names) is chosen in Init and never changes; every other variable is a   *)
(* local of compare_ffs, an output stream, or an output file.              *)
(*                                                                         *)
(* Numbers: energies, RMSDs and TFDs are Python floats.  They are modelled *)
(* as whole numbers; a value that is later passed to str() carries its     *)
(* Python type ("int" or "float"), because str(-1) and str(-1.0) differ.   *)
(* Every conformer of an input file carries a numeric energy under the     *)
(* energy tag of its method and a value under conf_id_tag, and every       *)
(* molecule has at least one conformer (as every OEMol has).               *)
(***************************************************************************)
EXTENDS Integers, Sequences, FiniteSets, TLC

\* ------------------------------------------------------------------ bounds
\* the largest number of entries of in_dict (the reference method included)
MaxMethods == 3
\* the largest number of molecules of the reference file
MaxMols == 2
\* the largest number of conformers of a reference molecule
MaxConfs == 2

\* ------------------------------------------------------- names and values
\* the name of the reference SD file and of the query SD file of method i
RefSdf == "ref.sdf"
QueSdfs == <<"ff1.sdf", "ff2.sdf", "ff3.sdf", "ff4.sdf", "ff5.sdf">>
QueLabels == <<"ff1", "ff2", "ff3", "ff4", "ff5">>
\* molecule titles by position, and the title of a molecule that is none of them
MolTitles == <<"ethane", "propane", "butane", "pentane", "hexane">>
OtherTitle == "benzene"
\* conformer identity tag values by position, and a value that is none of them
ConfIds == <<"c0", "c1", "c2", "c3", "c4">>
OtherId == "cX"
\* canonical SMILES of a conformer, and of one whose conversion went wrong
Smiles == "CC"
OtherSmiles == "C.C"
\* the energies a conformer of the freely chosen molecules may carry
Energies == {0, 1, 2, 4}
\* the prefix main() passes for the output files
outprefix == "refdata"

Abs(n) == IF n < 0 THEN -n ELSE n
Min2(a, b) == IF a < b THEN a ELSE b

\* ---------------------------------------------------------- Python values
PyInt(n) == [ty |-> "int", v |-> n]
PyFloat(n) == [ty |-> "float", v |-> n]

IntStr(n) ==
    CASE n = -1 -> "-1" [] n = 0 -> "0" [] n = 1 -> "1" [] n = 2 -> "2"
      [] n = 3 -> "3" [] n = 4 -> "4" [] OTHER -> "?"

\* str(x) of a Python int or float
Str(x) == IF x.ty = "int" THEN IntStr(x.v) ELSE IntStr(x.v) \o ".0"

\* np.array(list): one dtype for the whole array, float64 as soon as one
\* element is a float, else int64; the values are kept
NpArray(lst) ==
    IF \E i \in 1..Len(lst) : lst[i].ty = "float"
    THEN [i \in 1..Len(lst) |-> PyFloat(lst[i].v)]
    ELSE lst

\* ------------------------------------------------------------ input files
\* A conformer: the SD data it carries under conf_id_tag (id) and under the
\* energy tag of its method (ene), its canonical SMILES and its geometry.
Conf(id, ene, smiles, geom) == [id |-> id, ene |-> ene, smiles |-> smiles, geom |-> geom]

\* the energies and geometries of the files whose energies are not chosen freely
RefEne(j, k) == (j + k) % 3
QueEne(i, j, k) == (i * k + j) % 3
RefGeom(j, k) == k % 2
QueGeom(i, j, k) == (i + j + k) % 3

\* the reference file: molecule j has nc[j] conformers
RefMols(nc) ==
    [j \in 1..Len(nc) |->
        [title |-> MolTitles[j],
         confs |-> [k \in 1..nc[j] |->
                      Conf(ConfIds[k], RefEne(j, k), Smiles, RefGeom(j, k))]]]

\* What a query file may have that the reference file has not: one molecule
\* more or (never leaving it empty) fewer; another title, one conformer more or
\* fewer at molecule j; another tag value or another SMILES at conformer k of j.
Skip == [kind |-> "skip", j |-> 0, k |-> 0]
NoDefect == [kind |-> "none", j |-> 0, k |-> 0]
Defects(nc) ==
    {[kind |-> "long", j |-> 0, k |-> 0]}
    \cup {[kind |-> "short", j |-> 0, k |-> 0] : x \in {y \in {Len(nc)} : y > 1}}
    \cup {[kind |-> "title", j |-> j, k |-> 0] : j \in 1..Len(nc)}
    \cup {[kind |-> "more", j |-> j, k |-> 0] : j \in 1..Len(nc)}
    \cup {[kind |-> "fewer", j |-> j, k |-> 0] : j \in {x \in 1..Len(nc) : nc[x] > 1}}
    \cup UNION {{[kind |-> "id", j |-> j, k |-> k] : k \in 1..nc[j]} : j \in 1..Len(nc)}
    \cup UNION {{[kind |-> "topo", j |-> j, k |-> k] : k \in 1..nc[j]} : j \in 1..Len(nc)}

\* the query file of method i: the reference's molecules and conformers, but for d
QueMols(i, nc, d) ==
    LET K == Len(nc)
        n == CASE d.kind = "short" -> K - 1 [] d.kind = "long" -> K + 1 [] OTHER -> K
        c(j) == CASE j > K -> 1
                  [] d.kind = "more" /\ d.j = j -> nc[j] + 1
                  [] d.kind = "fewer" /\ d.j = j -> nc[j] - 1
                  [] OTHER -> nc[j]
    IN [j \in 1..n |->
          [title |-> IF d.kind = "title" /\ d.j = j THEN OtherTitle ELSE MolTitles[j],
           confs |-> [k \in 1..c(j) |->
                        Conf(IF d.kind = "id" /\ d.j = j /\ d.k = k THEN OtherId ELSE ConfIds[k],
                             QueEne(i, j, k),
                             IF d.kind = "topo" /\ d.j = j /\ d.k = k THEN OtherSmiles ELSE Smiles,
                             QueGeom(i, j, k))]]]

\* one molecule whose conformers carry the energies es
EneMols(es, i) ==
    <<[title |-> MolTitles[1],
       confs |-> [k \in 1..Len(es) |-> Conf(ConfIds[k], es[k], Smiles, QueGeom(i, 1, k))]]>>

Method(label, sdfile, sdtag) == [label |-> label, sdfile |-> sdfile, sdtag |-> sdtag]
RefMethod == Method("ref", RefSdf, "QM energy")

\* the number of conformers of each reference molecule
Shapes == UNION {[1..K -> 1..MaxConfs] : K \in 1..MaxMols}

\* Per query method: Skip (its sdfile is the reference's), NoDefect (its own
\* file, parallel to the reference) or a defect of its own file.  At most one
\* query file of an input has a defect.
QueryChoices(nc) ==
    UNION {{q \in [1..M -> {Skip, NoDefect} \cup Defects(nc)] :
               Cardinality({i \in 1..M : q[i] \notin {Skip, NoDefect}}) <= 1}
           : M \in 0..(MaxMethods - 1)}

\* inputs whose files differ in structure, with fixed energies
AlignmentInputs ==
    {[in_dict |-> <<RefMethod>> \o
                  [i \in 1..Len(q) |->
                     Method(QueLabels[i], IF q[i] = Skip THEN RefSdf ELSE QueSdfs[i], "MM energy")],
      disk |-> [f \in {RefSdf} \cup {QueSdfs[i] : i \in 1..Len(q)} |->
                  IF f = RefSdf THEN RefMols(nc)
                  ELSE LET i == CHOOSE x \in 1..Len(q) : QueSdfs[x] = f
                       IN QueMols(i, nc, q[i])]]
     : <<nc, q>> \in UNION {{<<s, c>> : c \in QueryChoices(s)} : s \in Shapes}}

\* inputs of one query method and one molecule, with freely chosen energies
EnergyInputs ==
    {[in_dict |-> <<RefMethod, Method(QueLabels[1], QueSdfs[1], "MM energy")>>,
      disk |-> [f \in {RefSdf, QueSdfs[1]} |->
                  IF f = RefSdf THEN EneMols(e[1], 0) ELSE EneMols(e[2], 1)]]
     : e \in UNION {[1..2 -> [1..C -> Energies]] : C \in 1..MaxConfs}}

Inputs == AlignmentInputs \cup EnergyInputs

\* ------------------------------------------------------------------ state
VARIABLES
    in_dict,        \* the ordered methods: <<[label, sdfile, sdtag], ...>>
    disk,           \* sdfile -> the molecules reader.read_mols yields for it
    pc,             \* where compare_ffs is: "for_method", "for_mol", "for_conf",
                    \* "returned", "raised" (an exception left it), "fatal"
    mi,             \* position of the method loop in in_dict.items()
    mj,             \* position of the molecule loop in zip(mols_ref, mols_que)
    ck,             \* position of the conformer loop in zip(GetConfs, GetConfs)
    mols_ref, mols_que,
    enes_full, rmsds_full, tfds_full,
    enes_method, rmsds_method, tfds_method,
    enes_ref, enes_que, rmsds_mol, tfds_mol,
    ofs,            \* the stream object the name ofs is bound to (0: unbound)
    streams,        \* the oemolostream objects created so far
    files,          \* output file name -> the records written to it
    error           \* the exception or fatal message that ended the run

inputs == <<in_dict, disk>>
loops == <<mi, mj, ck, mols_ref, mols_que>>
fulls == <<enes_full, rmsds_full, tfds_full>>
methods == <<enes_method, rmsds_method, tfds_method>>
mollists == <<enes_ref, enes_que, rmsds_mol, tfds_mol>>
outputs == <<ofs, streams, files>>
vars == <<inputs, pc, loops, fulls, methods, mollists, outputs, error>>

NoError == [type |-> "none"]

\* sdf_ref, tag_ref: the first entry of in_dict
sdf_ref == in_dict[1].sdfile
\* sdf_que of the current iteration of the method loop
sdf_que == in_dict[mi].sdfile
\* outfile = f'{outprefix}_{sdf_que}'
OutfileOf(sdf) == outprefix \o "_" \o sdf
\* the SD tags compare_ffs adds to a query conformer
RmsdKey == "RMSD to " \o sdf_ref
TfdKey == "TFD to " \o sdf_ref

\* ---------------------------------------------------------- metric engine
\* oechem.OERMSD(ref_conf, que_conf, automorph, heavyOnly, overlay): a float
OERMSD(ref_conf, que_conf) == PyFloat(Abs(ref_conf.geom - que_conf.geom))

\* Chem.TorsionFingerprints.GetTFDBetweenMolecules: a float in [0, 1]
GetTFDBetweenMolecules(ref_conf, que_conf) ==
    PyFloat(IF ref_conf.geom = que_conf.geom THEN 0 ELSE 1)

\* calc_tfd without the SMILES comparison of line 65
calc_tfd_unchecked(ref_mol, query_mol) == GetTFDBetweenMolecules(ref_mol, query_mol)

\* calc_tfd: -1 (an int) when the SMILES of the converted molecules differ
calc_tfd(ref_mol, query_mol) ==
    IF query_mol.smiles # ref_mol.smiles
    THEN PyInt(-1)
    ELSE GetTFDBetweenMolecules(ref_mol, query_mol)

\* ------------------------------------------------------- relative energies
\* enes_ref.index(min(enes_ref)): the first index of the smallest energy
lowest_ref_idx(enes) ==
    CHOOSE i \in 1..Len(enes) :
        /\ \A x \in 1..Len(enes) : enes[i] <= enes[x]
        /\ \A x \in 1..(i - 1) : enes[x] # enes[i]

\* rel_enes_ref, rel_enes_que: both relative to the conformer at lowest_ref_idx
rel_enes(enes, idx) == [k \in 1..Len(enes) |-> enes[k] - enes[idx]]

\* the query series relative to the query's own lowest conformer
enes_mol_own_min(ref, que) ==
    LET rel_enes_ref == rel_enes(ref, lowest_ref_idx(ref))
        rel_enes_que == rel_enes(que, lowest_ref_idx(que))
    IN [k \in 1..Len(ref) |-> rel_enes_ref[k] - rel_enes_que[k]]

\* enes_mol = np.array(rel_enes_ref) - np.array(rel_enes_que)
enes_mol(ref, que) ==
    LET idx == lowest_ref_idx(ref)
        rel_enes_ref == rel_enes(ref, idx)
        rel_enes_que == rel_enes(que, idx)
    IN [k \in 1..Len(ref) |-> rel_enes_ref[k] - rel_enes_que[k]]

\* -------------------------------------------------------------- the checks
\* the check of line 154 without the comparison of NumConfs
MolsAligned_title_only(rmol, qmol) == rmol.title = qmol.title

\* line 154: same title and same number of conformers
MolsAligned(rmol, qmol) ==
    rmol.title = qmol.title /\ Len(rmol.confs) = Len(qmol.confs)

\* the check of line 172 reading the reference's tag twice
ConfsAligned_ref_twice(ref_conf, que_conf) == ref_conf.id = ref_conf.id

\* line 172: same value under conf_id_tag
ConfsAligned(ref_conf, que_conf) == ref_conf.id = que_conf.id

\* the ValueError of lines 155-158
MolError(rmol, qmol) ==
    [type |-> "ValueError", what |-> "Molecules not aligned in iteration",
     rmol_name |-> rmol.title, rmol_nconfs |-> Len(rmol.confs),
     qmol_name |-> qmol.title, qmol_nconfs |-> Len(qmol.confs)]

\* the ValueError of lines 173-176
ConfError(rmol, ref_conf, que_conf) ==
    [type |-> "ValueError", what |-> "Conformers not aligned in iteration",
     rmol_name |-> rmol.title, ref_id |-> ref_conf.id, que_id |-> que_conf.id]

\* ------------------------------------------------------------ output files
\* the query conformer as written by OEWriteConstMolecule: its title, its SD
\* data, and the SD data added by OEAddSDData, in the order added
Record(qmol, que_conf, rmsd, tfd) ==
    [title |-> qmol.title, id |-> que_conf.id, ene |-> que_conf.ene,
     added |-> <<<<RmsdKey, Str(rmsd)>>, <<TfdKey, Str(tfd)>>>>]

\* a write that replaces what the file holds
OEWriteConstMolecule_replacing(records, rec) == <<rec>>

\* OEWriteConstMolecule(ofs, que_conf): the record goes to the end of the file
OEWriteConstMolecule(records, rec) == Append(records, rec)

\* ofs.open(outfile) creates the file, or empties the one of that name
Created(fs, outfile) ==
    [f \in DOMAIN fs \cup {outfile} |-> IF f = outfile THEN <<>> ELSE fs[f]]

\* ------------------------------------------------------------------- Init
Init ==
    /\ \E inp \in Inputs : in_dict = inp.in_dict /\ disk = inp.disk
    /\ pc = "for_method"
    /\ mi = 1 /\ mj = 1 /\ ck = 1
    /\ mols_ref = <<>> /\ mols_que = <<>>
    /\ enes_full = <<>> /\ rmsds_full = <<>> /\ tfds_full = <<>>
    /\ enes_method = <<>> /\ rmsds_method = <<>> /\ tfds_method = <<>>
    /\ enes_ref = <<>> /\ enes_que = <<>> /\ rmsds_mol = <<>> /\ tfds_mol = <<>>
    /\ ofs = 0
    /\ streams = <<>>
    /\ files = [f \in {} |-> <<>>]
    /\ error = NoError

\* ---------------------------------------------------------------- actions
\* lines 121-128: the method's file is the reference's: continue
MethodSkip ==
    /\ pc = "for_method" /\ mi <= Len(in_dict)
    /\ sdf_que = sdf_ref
    /\ mi' = mi + 1
    /\ UNCHANGED <<inputs, pc, mj, ck, mols_ref, mols_que, fulls, methods,
                   mollists, outputs, error>>

\* The name ofs is bound to a new oemolostream.  The object it was bound to
\* is no longer referenced: whether and when its destructor closes it is up
\* to the interpreter (released: it did).
Rebound(released) ==
    [s \in 1..Len(streams) |->
        IF s = ofs /\ released /\ streams[s].state = "open"
        THEN [streams[s] EXCEPT !.state = "closed", !.finalized = TRUE]
        ELSE streams[s]]

\* lines 130-146: new sublists, the output stream is opened, both files are read
MethodOpen ==
    /\ pc = "for_method" /\ mi <= Len(in_dict)
    /\ sdf_que # sdf_ref
    /\ \E released \in (IF ofs = 0 THEN {FALSE} ELSE BOOLEAN) :
          streams' = Append(Rebound(released),
                            [outfile |-> OutfileOf(sdf_que), method |-> mi,
                             state |-> "open", closes |-> 0, finalized |-> FALSE])
    /\ ofs' = Len(streams) + 1
    /\ files' = Created(files, OutfileOf(sdf_que))
    /\ enes_method' = <<>> /\ rmsds_method' = <<>> /\ tfds_method' = <<>>
    /\ mols_ref' = disk[sdf_ref]
    /\ mols_que' = disk[sdf_que]
    /\ mj' = 1
    /\ pc' = "for_mol"
    /\ UNCHANGED <<inputs, mi, ck, fulls, mollists, error>>

\* lines 137-139: ofs.open(outfile) fails: OEThrow.Fatal ends the run
OpenFail ==
    /\ pc = "for_method" /\ mi <= Len(in_dict)
    /\ sdf_que # sdf_ref
    /\ \E released \in (IF ofs = 0 THEN {FALSE} ELSE BOOLEAN) :
          streams' = Append(Rebound(released),
                            [outfile |-> OutfileOf(sdf_que), method |-> mi,
                             state |-> "unopened", closes |-> 0, finalized |-> FALSE])
    /\ ofs' = Len(streams) + 1
    /\ enes_method' = <<>> /\ rmsds_method' = <<>> /\ tfds_method' = <<>>
    /\ error' = [type |-> "Fatal", what |-> "Unable to open for writing",
                 outfile |-> OutfileOf(sdf_que)]
    /\ pc' = "fatal"
    /\ UNCHANGED <<inputs, loops, fulls, mollists, files>>

\* zip(mols_ref, mols_que) has a pair at position mj
HasMolPair == mj <= Min2(Len(mols_ref), Len(mols_que))

\* lines 149-158: the molecules at mj are not aligned: ValueError
MolCheckFail ==
    /\ pc = "for_mol" /\ HasMolPair
    /\ ~MolsAligned(mols_ref[mj], mols_que[mj])
    /\ error' = MolError(mols_ref[mj], mols_que[mj])
    /\ pc' = "raised"
    /\ UNCHANGED <<inputs, loops, fulls, methods, mollists, outputs>>

\* lines 149-164: the molecules at mj are aligned: new conformer lists
MolStart ==
    /\ pc = "for_mol" /\ HasMolPair
    /\ MolsAligned(mols_ref[mj], mols_que[mj])
    /\ enes_ref' = <<>> /\ enes_que' = <<>> /\ rmsds_mol' = <<>> /\ tfds_mol' = <<>>
    /\ ck' = 1
    /\ pc' = "for_conf"
    /\ UNCHANGED <<inputs, mi, mj, mols_ref, mols_que, fulls, methods, outputs, error>>

\* zip(rmol.GetConfs(), qmol.GetConfs()) has a pair at position ck
HasConfPair == ck <= Min2(Len(mols_ref[mj].confs), Len(mols_que[mj].confs))

\* lines 167-176: the conformers at ck differ in conf_id_tag: ValueError
ConfCheckFail ==
    /\ pc = "for_conf" /\ HasConfPair
    /\ ~ConfsAligned(mols_ref[mj].confs[ck], mols_que[mj].confs[ck])
    /\ error' = ConfError(mols_ref[mj], mols_ref[mj].confs[ck], mols_que[mj].confs[ck])
    /\ pc' = "raised"
    /\ UNCHANGED <<inputs, loops, fulls, methods, mollists, outputs>>

\* lines 167-194: energies, RMSD and TFD of the pair at ck; the annotated
\* query conformer is written
ConfCompare ==
    /\ pc = "for_conf" /\ HasConfPair
    /\ LET ref_conf == mols_ref[mj].confs[ck]
           que_conf == mols_que[mj].confs[ck]
           rmsd == OERMSD(ref_conf, que_conf)
           tfd == calc_tfd(ref_conf, que_conf)
           outfile == streams[ofs].outfile
       IN /\ ConfsAligned(ref_conf, que_conf)
          /\ enes_ref' = Append(enes_ref, ref_conf.ene)
          /\ enes_que' = Append(enes_que, que_conf.ene)
          /\ rmsds_mol' = Append(rmsds_mol, rmsd)
          /\ tfds_mol' = Append(tfds_mol, tfd)
          /\ files' = [files EXCEPT ![outfile] =
                          OEWriteConstMolecule(@, Record(mols_que[mj], que_conf, rmsd, tfd))]
    /\ ck' = ck + 1
    /\ UNCHANGED <<inputs, pc, mi, mj, mols_ref, mols_que, fulls, methods,
                   ofs, streams, error>>

\* lines 196-207: the conformer loop is over: the molecule's ddE, RMSD and TFD
\* arrays are appended to the method's lists
MolEnd ==
    /\ pc = "for_conf" /\ ~HasConfPair
    /\ enes_method' = Append(enes_method, enes_mol(enes_ref, enes_que))
    /\ rmsds_method' = Append(rmsds_method, NpArray(rmsds_mol))
    /\ tfds_method' = Append(tfds_method, NpArray(tfds_mol))
    /\ mj' = mj + 1
    /\ pc' = "for_mol"
    /\ UNCHANGED <<inputs, mi, ck, mols_ref, mols_que, fulls, mollists, outputs, error>>

\* lines 211-213: the molecule loop is over: the method's lists are appended
MethodEnd ==
    /\ pc = "for_mol" /\ ~HasMolPair
    /\ enes_full' = Append(enes_full, enes_method)
    /\ rmsds_full' = Append(rmsds_full, rmsds_method)
    /\ tfds_full' = Append(tfds_full, tfds_method)
    /\ mi' = mi + 1
    /\ pc' = "for_method"
    /\ UNCHANGED <<inputs, mj, ck, mols_ref, mols_que, methods, mollists, outputs, error>>

\* lines 215-217: after the method loop, ofs.close() and return
CloseReturn ==
    /\ pc = "for_method" /\ mi > Len(in_dict)
    /\ ofs # 0
    /\ streams' = [streams EXCEPT ![ofs].state = "closed", ![ofs].closes = @ + 1]
    /\ pc' = "returned"
    /\ UNCHANGED <<inputs, loops, fulls, methods, mollists, ofs, files, error>>

\* line 215: no method was compared, so the name ofs was never bound
CloseUnbound ==
    /\ pc = "for_method" /\ mi > Len(in_dict)
    /\ ofs = 0
    /\ error' = [type |-> "UnboundLocalError", what |-> "ofs"]
    /\ pc' = "raised"
    /\ UNCHANGED <<inputs, loops, fulls, methods, mollists, outputs>>

Next ==
    \/ MethodSkip
    \/ MethodOpen
    \/ OpenFail
    \/ MolCheckFail
    \/ MolStart
    \/ ConfCheckFail
    \/ ConfCompare
    \/ MolEnd
    \/ MethodEnd
    \/ CloseReturn
    \/ CloseUnbound

Spec == Init /\ [][Next]_vars

\* ------------------------------------------------- the input, for the claims
\* the methods compare_ffs compares: those whose sdfile is not the reference's
NonSkipped == {i \in 1..Len(in_dict) : in_dict[i].sdfile # sdf_ref}
\* the row of method i in the result tensors, and the method of row r
RowOf(i) == Cardinality({x \in NonSkipped : x <= i})
MethodOfRow(r) == CHOOSE i \in NonSkipped : RowOf(i) = r
RefFile == disk[sdf_ref]
QueFile(i) == disk[in_dict[i].sdfile]
\* the molecule pairs of method i, and the conformer pairs of its molecule pair j
ZipLen(i) == Min2(Len(RefFile), Len(QueFile(i)))
ZipConfs(i, j) == Min2(Len(RefFile[j].confs), Len(QueFile(i)[j].confs))
\* the energies of molecule j in the reference file and in method i's file
ERef(j) == [k \in 1..Len(RefFile[j].confs) |-> RefFile[j].confs[k].ene]
EQue(i, j) == [k \in 1..Len(QueFile(i)[j].confs) |-> QueFile(i)[j].confs[k].ene]
\* molecule pair j of method i agrees in title and conformer count; in every tag
TitleCountMatch(i, j) ==
    /\ RefFile[j].title = QueFile(i)[j].title
    /\ Len(RefFile[j].confs) = Len(QueFile(i)[j].confs)
TagsMatch(i, j) ==
    \A k \in 1..ZipConfs(i, j) : RefFile[j].confs[k].id = QueFile(i)[j].confs[k].id
\* the conformer pairs <<j, k>> of the first n molecule pairs of method i, in
\* molecule order then conformer order
FlatPairs(i, n) ==
    LET F[m \in 0..n] ==
          IF m = 0 THEN <<>>
          ELSE F[m - 1] \o [k \in 1..ZipConfs(i, m) |-> <<m, k>>]
    IN F[n]
\* method i's comparison is under way or over
InMethod(i) == mi = i /\ pc \in {"for_mol", "for_conf", "raised"}
Started(i) == mi > i \/ InMethod(i)
Terminated == pc \in {"returned", "raised", "fatal"}

\* ---------------------------------------------------------------- claim C1
\* the index of the minimum reference energy, the first one on ties
MinIdx(E) ==
    CHOOSE n \in 1..Len(E) :
        (\A x \in 1..Len(E) : E[n] <= E[x]) /\ (\A x \in 1..(n - 1) : E[x] > E[n])

C9_ddE_is_query_minus_ref ==
    \A r \in 1..Len(enes_full) : \A j \in 1..Len(enes_full[r]) :
        LET i == MethodOfRow(r)
            Er == ERef(j)
            Eq == EQue(i, j)
            n == MinIdx(Er)
        IN \A k \in 1..Len(enes_full[r][j]) :
              enes_full[r][j][k] = (Eq[k] - Eq[n]) - (Er[k] - Er[n])

\* ---------------------------------------------------------------- claim C2
\* C2: a method whose file holds another number of molecules than the
\* reference file (the common positions being aligned) gets no RMSD, TFD or
\* ddE computed, no row, and the run does not go on past it or return.
C2_count_mismatch_raises ==
    \A i \in NonSkipped :
        (/\ Len(RefFile) # Len(QueFile(i))
         /\ \A j \in 1..ZipLen(i) : TitleCountMatch(i, j) /\ TagsMatch(i, j))
        => /\ mi <= i
           /\ pc # "returned"
           /\ InMethod(i) => (pc = "for_mol" /\ mj = 1) \/ pc = "raised"

\* ---------------------------------------------------------------- claim C3
\* the output file of method i
OutOf(i) == OutfileOf(in_dict[i].sdfile)

\* C3: when the molecules at position j of a compared method i differ in
\* title or conformer count, nothing of molecule j is read, computed or
\* written, the run ends in a ValueError naming both titles and both counts,
\* no later molecule or method is processed and nothing is returned.
C3_molecule_mismatch_aborts ==
    \A i \in NonSkipped : \A j \in 1..ZipLen(i) :
        ~TitleCountMatch(i, j) =>
            /\ mi <= i
            /\ pc # "returned"
            /\ Len(enes_full) < RowOf(i)
            /\ Started(i) => Len(files[OutOf(i)]) <= Len(FlatPairs(i, j - 1))
            /\ InMethod(i) =>
                  /\ mj <= j
                  /\ Len(enes_method) <= j - 1
                  /\ mj = j =>
                        \/ pc = "for_mol"
                        \/ /\ pc = "raised"
                           /\ error.type = "ValueError"
                           /\ error.what = "Molecules not aligned in iteration"
                           /\ error.rmol_name = RefFile[j].title
                           /\ error.rmol_nconfs = Len(RefFile[j].confs)
                           /\ error.qmol_name = QueFile(i)[j].title
                           /\ error.qmol_nconfs = Len(QueFile(i)[j].confs)

\* the run was aborted by a molecule mismatch at the second molecule of the
\* second compared method
C3_witness ==
    /\ pc = "raised"
    /\ error.type = "ValueError"
    /\ error.what = "Molecules not aligned in iteration"
    /\ mj = 2
    /\ Len(enes_full) = 1
    /\ Len(files[OutOf(mi)]) > 0

\* ---------------------------------------------------------------- claim C4
\* C4: in a molecule pair j that passed the title and count check, when the
\* identity tags of the conformers at k differ, the energies of pair k are
\* not read, its RMSD and TFD are not computed, query conformer k is not
\* written, the run ends in a ValueError naming the molecule title and the
\* two tag values, and molecule j gets no ddE row.
C4_tag_mismatch_aborts ==
    \A i \in NonSkipped : \A j \in 1..ZipLen(i) :
        TitleCountMatch(i, j) => \A k \in 1..ZipConfs(i, j) :
            RefFile[j].confs[k].id # QueFile(i)[j].confs[k].id =>
                /\ mi <= i
                /\ pc # "returned"
                /\ Len(enes_full) < RowOf(i)
                /\ Started(i) =>
                      Len(files[OutOf(i)]) <= Len(FlatPairs(i, j - 1)) + (k - 1)
                /\ InMethod(i) =>
                      /\ mj <= j
                      /\ Len(enes_method) <= j - 1
                      /\ (mj = j /\ pc = "for_conf") =>
                            /\ ck <= k
                            /\ Len(enes_ref) <= k - 1 /\ Len(enes_que) <= k - 1
                            /\ Len(rmsds_mol) <= k - 1 /\ Len(tfds_mol) <= k - 1
                      /\ (mj = j /\ pc = "raised") =>
                            /\ ck <= k
                            /\ ck = k =>
                                  /\ error.type = "ValueError"
                                  /\ error.what = "Conformers not aligned in iteration"
                                  /\ error.rmol_name = RefFile[j].title
                                  /\ error.ref_id = RefFile[j].confs[k].id
                                  /\ error.que_id = QueFile(i)[j].confs[k].id

\* the run was aborted by a tag mismatch at the second conformer of a molecule
C4_witness ==
    /\ pc = "raised"
    /\ error.type = "ValueError"
    /\ error.what = "Conformers not aligned in iteration"
    /\ ck = 2
    /\ Len(enes_ref) = 1
    /\ error.ref_id # error.que_id

\* ---------------------------------------------------------------- claim C5
\* every method holds the reference's molecules, conformers and tags
AllParallel ==
    \A i \in 1..Len(in_dict) :
        /\ Len(QueFile(i)) = Len(RefFile)
        /\ \A j \in 1..ZipLen(i) : TitleCountMatch(i, j) /\ TagsMatch(i, j)

\* T has one row per compared method, each of K molecule entries of lengths C1..CK
ShapeOk(T) ==
    /\ Len(T) = Cardinality(NonSkipped)
    /\ \A r \in 1..Len(T) :
          /\ Len(T[r]) = Len(RefFile)
          /\ \A j \in 1..Len(T[r]) : Len(T[r][j]) = Len(RefFile[j].confs)

\* C5: with N parallel methods, M = N - 1 >= 0 of them query methods, the run
\* returns three tensors of one row per compared query method, in input
\* order, each row of K entries of lengths C1..CK.
C5_tensor_shape ==
    (AllParallel /\ pc \in {"returned", "raised"}) =>
        /\ pc = "returned"
        /\ ShapeOk(enes_full) /\ ShapeOk(rmsds_full) /\ ShapeOk(tfds_full)
        /\ \A r \in 1..Len(rmsds_full) : \A j \in 1..Len(rmsds_full[r]) :
              \A k \in 1..Len(rmsds_full[r][j]) :
                 rmsds_full[r][j][k] =
                    OERMSD(RefFile[j].confs[k], QueFile(MethodOfRow(r))[j].confs[k])

\* ---------------------------------------------------------------- claim C6
\* C6: at most one output stream is open at any time; the stream of a method
\* whose loop is over (a later stream exists, or the run returned) was closed
\* by exactly one close(); close() is never reached with no stream opened.
C6_streams_scoped_per_method ==
    /\ Cardinality({s \in 1..Len(streams) : streams[s].state = "open"}) <= 1
    /\ \A s \in 1..Len(streams) :
          (s < Len(streams) \/ pc = "returned") =>
              streams[s].state = "closed" /\ streams[s].closes = 1
    /\ error.type # "UnboundLocalError"

\* ---------------------------------------------------------------- claim C7
\* all conformers <<j, k>> of method i's query file, in file order
AllQueConfs(i) ==
    LET Q == QueFile(i)
        F[m \in 0..Len(Q)] ==
          IF m = 0 THEN <<>>
          ELSE F[m - 1] \o [k \in 1..Len(Q[m].confs) |-> <<m, k>>]
    IN F[Len(Q)]

\* C7: after a run that returned, the output file of every compared method
\* holds one record per query conformer, in molecule then conformer order,
\* whose only added data are 'RMSD to <ref>' and 'TFD to <ref>', with the
\* string forms of the method's rmsds_full and tfds_full entries as values.
C7_output_records ==
    pc = "returned" =>
        \A i \in NonSkipped :
            LET all == AllQueConfs(i)
                r == RowOf(i)
                Q == QueFile(i)
            IN /\ OutOf(i) \in DOMAIN files
               /\ Len(files[OutOf(i)]) = Len(all)
               /\ \A p \in 1..Len(all) :
                     LET j == all[p][1]
                         k == all[p][2]
                         rec == files[OutOf(i)][p]
                     IN /\ rec.title = Q[j].title
                        /\ rec.id = Q[j].confs[k].id
                        /\ rec.added = <<<<RmsdKey, Str(rmsds_full[r][j][k])>>,
                                         <<TfdKey, Str(tfds_full[r][j][k])>>>>

\* ---------------------------------------------------------------- claim C8
\* the SMILES of the conformer pair <<j, k>> of method i differ
TopoDiffers(i, j, k) == RefFile[j].confs[k].smiles # QueFile(i)[j].confs[k].smiles

\* some compared pair has a topology mismatch, and nothing else is wrong
TopoOnly ==
    /\ AllParallel
    /\ \E i \in NonSkipped : \E j \in 1..ZipLen(i) : \E k \in 1..ZipConfs(i, j) :
          TopoDiffers(i, j, k)

\* C8: the TFD entry of a conformer pair is -1 exactly when the SMILES of the
\* pair differ and the torsion-fingerprint value otherwise; the -1 is also the
\* TFD field of the written conformer; RMSD and ddE of the pair are produced
\* all the same; a run whose only irregularity is a topology mismatch is not
\* aborted by it and returns tensors of the full shape.
C8_tfd_sentinel_recoverable ==
    /\ \A r \in 1..Len(tfds_full) : \A j \in 1..Len(tfds_full[r]) :
          LET i == MethodOfRow(r)
              base == Len(FlatPairs(i, j - 1))
          IN \A k \in 1..Len(tfds_full[r][j]) :
                LET ref_conf == RefFile[j].confs[k]
                    que_conf == QueFile(i)[j].confs[k]
                    field == files[OutOf(i)][base + k].added[2]
                IN /\ tfds_full[r][j][k].v =
                         IF TopoDiffers(i, j, k) THEN -1
                         ELSE GetTFDBetweenMolecules(ref_conf, que_conf).v
                   /\ field[1] = TfdKey
                   /\ TopoDiffers(i, j, k) <=> field[2] = "-1"
                   /\ rmsds_full[r][j][k] = OERMSD(ref_conf, que_conf)
                   /\ k \in DOMAIN enes_full[r][j]
    /\ (TopoOnly /\ Terminated) =>
          /\ pc \in {"returned", "fatal"}
          /\ pc = "returned" =>
                ShapeOk(enes_full) /\ ShapeOk(rmsds_full) /\ ShapeOk(tfds_full)

\* a returned run with a -1 at the first conformer of the first method's first
\* molecule, followed by another conformer and by a second compared method
C8_witness ==
    /\ pc = "returned"
    /\ Len(tfds_full) = 2
    /\ Len(tfds_full[1][1]) = 2
    /\ tfds_full[1][1][1].v = -1
    /\ tfds_full[1][1][2].v # -1
    /\ files[OutOf(MethodOfRow(1))][1].added[2][2] = "-1"

\* --------------------------------------------------------------- claim C10
\* the number of conformer pairs of the current method that passed the
\* identity-tag check
Passed ==
    CASE pc = "for_mol" -> Len(FlatPairs(mi, mj - 1))
      [] pc = "for_conf" -> Len(FlatPairs(mi, mj - 1)) + (ck - 1)
      [] pc = "raised" /\ error.what = "Molecules not aligned in iteration" ->
            Len(FlatPairs(mi, mj - 1))
      [] OTHER -> Len(FlatPairs(mi, mj - 1)) + (ck - 1)

\* the annotated query conformer of the pair jk = <<j, k>> of method i
Annotated(i, jk) ==
    LET ref_conf == RefFile[jk[1]].confs[jk[2]]
        que_conf == QueFile(i)[jk[1]].confs[jk[2]]
    IN [title |-> QueFile(i)[jk[1]].title, id |-> que_conf.id, ene |-> que_conf.ene,
        added |-> <<<<RmsdKey, Str(OERMSD(ref_conf, que_conf))>>,
                    <<TfdKey, Str(calc_tfd(ref_conf, que_conf))>>>>]

\* C10: the output file of a compared method exists from the moment its
\* comparison starts; it holds exactly the annotated query conformers of the
\* pairs that passed the identity-tag check so far, in processing order; the
\* files of the methods compared earlier hold all their pairs.  So it is also
\* when the run is aborted by a mismatch, with nothing returned.
C10_output_prefix ==
    \A i \in NonSkipped :
        /\ OutOf(i) \in DOMAIN files <=> Started(i)
        /\ Started(i) =>
              LET flat == FlatPairs(i, ZipLen(i))
                  n == IF mi > i THEN Len(flat) ELSE Passed
              IN n <= Len(flat) /\ files[OutOf(i)] = [p \in 1..n |-> Annotated(i, flat[p])]

\* a run aborted by a mismatch in its second compared method, which leaves a
\* partial file of that method and the whole file of the first
C10_witness ==
    /\ pc = "raised"
    /\ error.type = "ValueError"
    /\ Len(enes_full) = 1
    /\ Len(files[OutOf(mi)]) > 0
    /\ Len(files[OutOf(mi)]) < Len(AllQueConfs(mi))
    /\ \E i \in NonSkipped : i < mi /\ Len(files[OutOf(i)]) = Len(AllQueConfs(i))

=============================================================================
